---- MODULE Spec2Model ----
(***************************************************************************)
(* Model of the DOS post-processing dispatcher of src/fesl/targets/dos.py:  *)
(* the two static reductions number_of_electrons_from_dos and               *)
(* band_energy_from_dos, and the instance wrappers get_number_of_electrons  *)
(* and get_band_energy; of PhysicalData.read_from_openpmd_file              *)
(* (src/mala/common/physical_data.py) with its chunk loop; and of the       *)
(* choice of the LAMMPS input file in SNAP.__calculate_snap                 *)
(* (src/mala/descriptors/snap.py).  Each of the three has its own           *)
(* specifications; the variables of the other two stay at rest.             *)
(*                                                                         *)
(* Numbers.  TLA+ has no reals, so every quantity is an exact integer       *)
(* numerator of a fixed-point value:                                        *)
(*   - an energy grid is a record [den, pts]: the grid points are           *)
(*     pts[i] / den, with den = N-1 (np.linspace divides the interval into  *)
(*     N-1 steps), so grid points are exact rationals;                      *)
(*   - an occupation is a number of quarters, 0..4 standing for 0..1;       *)
(*   - an integral is six times the quadrature sum of the integrand in      *)
(*     these units (the 1/2 of the trapezoid and the 1/3 of Simpson's        *)
(*     rule are folded into the factor 6).                                  *)
(* The helpers of calculation_helpers (fermi_function,                      *)
(* integrate_values_on_grid, analytical_integration) are not part of the    *)
(* source tree; they are modelled from the specification's contracts        *)
(* (sections 4.1, 4.3, 4.4 and 7).                                          *)
(***************************************************************************)
EXTENDS Integers, Sequences, FiniteSets, TLC

VARIABLES
    parameters,       \* self.parameters: ldos_gridoffset_ev, ldos_gridspacing_ev, ldos_gridsize
    fermi_energy_eV,  \* self.fermi_energy_eV of the DOS instance
    temperature_K,    \* self.temperature_K of the DOS instance
    simpsEvenPolicy,  \* the integrator's documented choice for Simpson on an even number of points
    call,             \* the arguments of the most recent call
    outcome,          \* what that call returned or raised
    trace,            \* the helper invocations of that call, in program order
    ref,              \* history: one remembered static call (arguments and outcome)
    dos_array,        \* what the caller's dos_data array holds once the call is over
    reader,           \* a PhysicalData object: granularity and its _feature_mask()
    rcall,            \* read_from_openpmd_file: the series opened and the array passed
    rpc,              \* read_from_openpmd_file: where the call is
    array,            \* the caller-supplied array (None if none was passed)
    data,             \* the array the call allocates when none was passed
    base,             \* the loop variable of the chunk loop
    loads,            \* per record component: the load_chunk calls made on it
    stores,           \* per output feature column: the assignments made to it
    failure,          \* the exception the call raised
    lammps_compute_file,  \* parameters.lammps_compute_file of a SNAP object
    mpi,                  \* parameters._configuration["mpi"]
    twojmax,              \* parameters.twojmax
    dbg_grid_dimensions,  \* self.dbg_grid_dimensions
    fingerprint_length,   \* self.fingerprint_length
    lmp_file,             \* the input file the last LAMMPS object ran
    snap_descriptors,     \* what the last calculation extracted, or that it raised
    calculations          \* the number of calculations made

dosVars == <<parameters, fermi_energy_eV, temperature_K, simpsEvenPolicy,
             call, outcome, trace, ref, dos_array>>
readerVars == <<reader, rcall, rpc, array, data, base, loads, stores, failure>>
snapVars == <<lammps_compute_file, mpi, twojmax, dbg_grid_dimensions, fingerprint_length,
              lmp_file, snap_descriptors, calculations>>
nonDosVars == <<readerVars, snapVars>>
vars == <<dosVars, nonDosVars>>

----------------------------------------------------------------------------
(* Bounds of the model *)

MaxN == 4        \* largest grid size (nr_energy_levels / ldos_gridsize)
MaxLen == 4      \* largest trailing-axis length of dos_data
MaxSpacing == 2  \* largest ldos_gridspacing_ev

GridSizes == 0..MaxN
Offsets == {-1, 0}
Spacings == 0..MaxSpacing
EmaxVals == {1, 3}
FermiVals == {0, 1}
TempVals == {0, 1}
None == <<>>          \* Python's None for an optional argument
Some(v) == <<v>>      \* an argument passed explicitly
Methods == {"trapz", "simps", "analytical", "Analytical"}
Policies == {"hybrid", "error"}

(* dos_data: a 1-D array [L] or a 2-D array [batch, L] *)
Ones(L) == [i \in 1..L |-> 1]
Ramp(L) == [i \in 1..L |-> i]
DosData ==
    UNION {{[ndim |-> 1, rows |-> <<Ones(L)>>],
            [ndim |-> 1, rows |-> <<Ramp(L)>>],
            [ndim |-> 2, rows |-> <<Ramp(L), Ones(L)>>]} : L \in 1..MaxLen}

----------------------------------------------------------------------------
(* Arithmetic helpers *)

RECURSIVE SumSeq(_)
SumSeq(s) == IF s = <<>> THEN 0 ELSE Head(s) + SumSeq(Tail(s))

Clamp(x, lo, hi) == IF x < lo THEN lo ELSE IF x > hi THEN hi ELSE x

TrailingLen(d) == Len(d.rows[1])

(* a result: a returned array (ndim 0 is a scalar) or a raised error; rule *)
(* names the reduction that produced a returned value                      *)
Value(ndim, vals, rule) == [kind |-> "value", ndim |-> ndim, vals |-> vals, rule |-> rule]
Raise(kind) == [kind |-> kind, ndim |-> 0, vals |-> <<>>, rule |-> "none"]
IsValue(r) == r.kind = "value"

(* one helper invocation, as recorded in the trace *)
Invocation(fn, tag, rows, grid, mu, temp) ==
    [fn |-> fn, tag |-> tag, rows |-> rows, grid |-> grid, mu |-> mu, temp |-> temp]

----------------------------------------------------------------------------
(* np.linspace(start, stop, num): num points, the first at start, the last *)
(* at stop, step (stop - start) / (num - 1); a single point is start.      *)
linspace(start, stop, num) ==
    IF num > 1
    THEN [den |-> num - 1,
          pts |-> [i \in 1..num |-> start * (num - 1) + (i - 1) * (stop - start)]]
    ELSE [den |-> 1, pts |-> [i \in 1..num |-> start]]

(* numpy broadcasting of two trailing axes: equal lengths, or one of them 1 *)
CanBroadcast(a, b) == a = b \/ a = 1 \/ b = 1
BroadcastLen(a, b) == IF a = 1 THEN b ELSE a
Pick(s, i) == IF Len(s) = 1 THEN s[1] ELSE s[i]
Times(a, b) == [i \in 1..BroadcastLen(Len(a), Len(b)) |-> Pick(a, i) * Pick(b, i)]

----------------------------------------------------------------------------
(* Occupation function evaluator (section 4.1), in quarters.               *)
(* T > 0: the logistic 1/(exp(x)+1), x = (E - mu)/(kB T), as its clamped    *)
(* tangent at x = 0 (value 1/2, slope -1/4): 1/2 at E = mu, non-increasing *)
(* in E, 1 far below mu and 0 far above.  T = 0: the step function with    *)
(* the value 1/2 at E = mu.  The temperature is in units of 1/kB.          *)
Occupation(e, m, w) ==
    IF w = 0
    THEN IF e < m THEN 4 ELSE IF e > m THEN 0 ELSE 2
    ELSE Clamp((2 * w - (e - m)) \div w, 0, 4)

fermi_function(energy_vals, mu, T) ==
    [i \in 1..Len(energy_vals.pts) |->
        Occupation(energy_vals.pts[i], mu * energy_vals.den, T * energy_vals.den)]

----------------------------------------------------------------------------
(* Numerical integrator (section 4.3), reduction along the last axis.      *)

(* 6 * trapezoid rule: sum of (x[i+1]-x[i]) * (y[i]+y[i+1]) / 2 *)
Trapezoid(y, x, lo, hi) ==
    SumSeq([k \in 1..(hi - lo) |->
              3 * (x[lo + k] - x[lo + k - 1]) * (y[lo + k - 1] + y[lo + k])])

(* 6 * composite Simpson rule on the first m points, m odd:                *)
(* sum over interval pairs of (x[i+2]-x[i]) * (y[i] + 4 y[i+1] + y[i+2]) / 6 *)
Simpson(y, x, m) ==
    SumSeq([k \in 1..((m - 1) \div 2) |->
              (x[2 * k + 1] - x[2 * k - 1])
                * (y[2 * k - 1] + 4 * y[2 * k] + y[2 * k + 1])])

(* Simpson on the bulk plus the trapezoid rule on the last interval *)
Hybrid(y, x) ==
    IF Len(x) < 2 THEN 0
    ELSE Simpson(y, x, Len(x) - 1) + Trapezoid(y, x, Len(x) - 1, Len(x))

IsEven(n) == n % 2 = 0

integrate_values_on_grid(values, grid, method) ==
    LET x == grid.pts
        Reduce(rule(_), name) ==
            Value(values.ndim - 1, [b \in 1..Len(values.rows) |-> rule(values.rows[b])],
                  name)
    IN  IF TrailingLen(values) # Len(x) THEN Raise("ShapeMismatchError")
        ELSE IF method \notin {"trapz", "simps"} THEN Raise("UnknownMethod")
        ELSE IF method = "trapz"
        THEN Reduce(LAMBDA y : Trapezoid(y, x, 1, Len(x)), "trapezoid")
        ELSE IF ~IsEven(Len(x))
        THEN Reduce(LAMBDA y : Simpson(y, x, Len(x)), "simpson")
        ELSE IF simpsEvenPolicy = "hybrid"
        THEN Reduce(LAMBDA y : Hybrid(y, x), "hybrid")
        ELSE Raise("IncompatibleGridError")

----------------------------------------------------------------------------
(* Analytical integrator (section 4.4).                                    *)

Orders == {"F0", "F1", "F2"}

(* 6 * F_j at the normalised coordinate x, as the leading term of its      *)
(* large-|x| expansion: eta^(j+1)/(j+1) for eta = -x > 0, and 0 otherwise  *)
FermiDiracIntegral(order, x) ==
    LET eta == IF x < 0 THEN -x ELSE 0
    IN  CASE order = "F0" -> 6 * eta
          [] order = "F1" -> 3 * eta * eta
          [] order = "F2" -> 2 * eta * eta * eta

(* the weight of grid point i: a finite difference of F_I1 over the        *)
(* interval to the next point, plus F_I0 at the point                      *)
Weight(I0, I1, xs, i) ==
    LET nxt == IF i < Len(xs) THEN i + 1 ELSE i
    IN  FermiDiracIntegral(I1, xs[nxt]) - FermiDiracIntegral(I1, xs[i])
          + FermiDiracIntegral(I0, xs[i])

analytical_integration(D, I0, I1, fermi_energy_ev, energy_grid, temperature_k) ==
    IF I0 \notin Orders \/ I1 \notin Orders THEN Raise("UnsupportedOrderError")
    ELSE IF temperature_k = 0 THEN Raise("DegenerateTemperatureError")
    ELSE IF TrailingLen(D) # Len(energy_grid.pts) THEN Raise("ShapeMismatchError")
    ELSE LET kT == temperature_k * energy_grid.den
             xs == [i \in 1..Len(energy_grid.pts) |->
                      (energy_grid.pts[i] - fermi_energy_ev * energy_grid.den) \div kT]
             Dot(row) == SumSeq([i \in 1..Len(row) |-> row[i] * Weight(I0, I1, xs, i)])
         IN  Value(D.ndim - 1, [b \in 1..Len(D.rows) |-> Dot(D.rows[b])], "analytical")

----------------------------------------------------------------------------
(* Dispatcher: the static reductions of dos.py.  Each returns the result   *)
(* and the helper invocations it made, in program order.                   *)

Returned(result, invocations) == [result |-> result, trace |-> invocations]

(* a variant that takes the grid size from the instance's parameters *)
energy_grid_of_parameters(emin, emax, nr_energy_levels) ==
    linspace(emin, emax, parameters.ldos_gridsize)

(* energy_vals = np.linspace(emin, emax, nr_energy_levels) *)
energy_grid(emin, emax, nr_energy_levels) == linspace(emin, emax, nr_energy_levels)

(* a variant that always takes the regular branch *)
regular_integration_always(integration_method) == TRUE

(* a variant that compares the method name without regard to case *)
regular_integration_ignoring_case(integration_method) ==
    integration_method \notin {"analytical", "Analytical"}

(* if integration_method != "analytical": regular integration *)
regular_integration(integration_method) == integration_method # "analytical"

(* a variant that hands the trapezoid rule to the integrator, whatever the *)
(* caller selected                                                         *)
method_passed_trapz(integration_method) == "trapz"

(* method=integration_method: the rule handed to integrate_values_on_grid *)
method_passed(integration_method) == integration_method

(* a * v for an array a and a vector v: the elementwise product broadcast  *)
(* along the last axis.  When the trailing lengths cannot be broadcast     *)
(* numpy raises (its ValueError "operands could not be broadcast           *)
(* together"): the call fails on the shapes, which is the                  *)
(* ShapeMismatchError of the error taxonomy.                               *)
Product(a, v) ==
    IF ~CanBroadcast(TrailingLen(a), Len(v))
    THEN Raise("ShapeMismatchError")
    ELSE [ndim |-> a.ndim, rows |-> [b \in 1..Len(a.rows) |-> Times(a.rows[b], v)]]

Raised(x) == "kind" \in DOMAIN x

(* dos_data * fermi_vals *)
electrons_integrand(dos_data, energy_vals, fermi_vals) == Product(dos_data, fermi_vals)

(* a variant that leaves the energy out of the band-energy integrand *)
band_energy_integrand_without_energy(dos_data, energy_vals, fermi_vals) ==
    Product(dos_data, fermi_vals)

(* dos_data * (energy_vals * fermi_vals) *)
band_energy_integrand(dos_data, energy_vals, fermi_vals) ==
    Product(dos_data, Times(energy_vals.pts, fermi_vals))

(* a variant that adds the electron count without the factor mu *)
band_energy_sum_without_mu(band_energy_minus_uN, fermi_energy, number_of_electrons) ==
    Value(band_energy_minus_uN.ndim,
          [b \in 1..Len(band_energy_minus_uN.vals) |->
              band_energy_minus_uN.vals[b] + number_of_electrons.vals[b]],
          "analytical")

(* band_energy_minus_uN + fermi_energy_eV * number_of_electrons *)
band_energy_sum(band_energy_minus_uN, fermi_energy, number_of_electrons) ==
    Value(band_energy_minus_uN.ndim,
          [b \in 1..Len(band_energy_minus_uN.vals) |->
              band_energy_minus_uN.vals[b] + fermi_energy * number_of_electrons.vals[b]],
          "analytical")

(* the two statements both operations start with *)
Prologue(energy_vals, fermi_energy, temperature) ==
    <<Invocation("linspace", "", <<>>, energy_vals, 0, 0),
      Invocation("fermi_function", "", <<>>, energy_vals, fermi_energy, temperature)>>

(* the regular branch on the integrand either operation builds: the        *)
(* product may raise, otherwise it goes to the numerical integrator        *)
Regular(values, energy_vals, integration_method, head) ==
    IF Raised(values)
    THEN Returned(values, head)
    ELSE LET method == method_passed(integration_method)
         IN  Returned(integrate_values_on_grid(values, energy_vals, method),
                      Append(head, Invocation("integrate_values_on_grid", method,
                                              values.rows, energy_vals, 0, 0)))

Analytical(dos_data, I0, I1, fermi_energy, energy_vals, temperature) ==
    Invocation("analytical_integration", I0 \o I1, dos_data.rows, energy_vals,
               fermi_energy, temperature)

number_of_electrons_from_dos(dos_data, emin, emax, nr_energy_levels, fermi_energy, temperature, integration_method) ==
    LET energy_vals == energy_grid(emin, emax, nr_energy_levels)
        fermi_vals == fermi_function(energy_vals, fermi_energy, temperature)
        head == Prologue(energy_vals, fermi_energy, temperature)
    IN  IF regular_integration(integration_method)
        THEN Regular(electrons_integrand(dos_data, energy_vals, fermi_vals),
                     energy_vals, integration_method, head)
        ELSE Returned(
               analytical_integration(dos_data, "F0", "F1", fermi_energy, energy_vals,
                                      temperature),
               Append(head, Analytical(dos_data, "F0", "F1", fermi_energy, energy_vals,
                                       temperature)))

band_energy_from_dos(dos_data, emin, emax, nr_energy_levels, fermi_energy, temperature, integration_method) ==
    LET energy_vals == energy_grid(emin, emax, nr_energy_levels)
        fermi_vals == fermi_function(energy_vals, fermi_energy, temperature)
        head == Prologue(energy_vals, fermi_energy, temperature)
    IN  IF regular_integration(integration_method)
        THEN Regular(band_energy_integrand(dos_data, energy_vals, fermi_vals),
                     energy_vals, integration_method, head)
        ELSE LET number_of_electrons ==
                     analytical_integration(dos_data, "F0", "F1", fermi_energy,
                                            energy_vals, temperature)
                 band_energy_minus_uN ==
                     analytical_integration(dos_data, "F1", "F2", fermi_energy,
                                            energy_vals, temperature)
                 first == Append(head, Analytical(dos_data, "F0", "F1", fermi_energy,
                                                  energy_vals, temperature))
                 both == Append(first, Analytical(dos_data, "F1", "F2", fermi_energy,
                                                  energy_vals, temperature))
             IN  IF ~IsValue(number_of_electrons)
                 THEN Returned(number_of_electrons, first)
                 ELSE IF ~IsValue(band_energy_minus_uN)
                 THEN Returned(band_energy_minus_uN, both)
                 ELSE Returned(band_energy_sum(band_energy_minus_uN, fermi_energy,
                                               number_of_electrons),
                               both)

(* a variant whose product is formed in place (dos_data *= ...), so that   *)
(* the operand holds the product afterwards                                *)
operand_after_product_in_place(a, product) == IF Raised(product) THEN a ELSE product

(* a * v is numpy's binary product: it allocates its result and leaves the *)
(* operand a as it was                                                     *)
operand_after_product(a, product) == a

(* analytical_integration takes D as an immutable input view (section 3)   *)
operand_after_analytical_integration(D) == D

(* what the array passed as dos_data holds when the static call a is over: *)
(* either branch hands it to exactly one consumer, the product of the      *)
(* regular branch or the analytical integrator; nothing is assigned to it  *)
dos_data_after(a) ==
    LET energy_vals == energy_grid(a.emin, a.emax, a.nr_energy_levels)
        fermi_vals == fermi_function(energy_vals, a.fermi_energy_eV, a.temperature_K)
        values == IF a.op = "number_of_electrons_from_dos"
                  THEN electrons_integrand(a.dos_data, energy_vals, fermi_vals)
                  ELSE band_energy_integrand(a.dos_data, energy_vals, fermi_vals)
    IN  IF regular_integration(a.integration_method)
        THEN operand_after_product(a.dos_data, values)
        ELSE operand_after_analytical_integration(a.dos_data)

----------------------------------------------------------------------------
(* State *)

NoCall == [op |-> "none"]
NoOutcome == Raise("none")
NoArray == [ndim |-> 0, rows |-> <<>>]

StaticOps == {"number_of_electrons_from_dos", "band_energy_from_dos"}

Args(op, dos_data, emin, emax, n, mu, T, method) ==
    [op |-> op, dos_data |-> dos_data, emin |-> emin, emax |-> emax,
     nr_energy_levels |-> n, fermi_energy_eV |-> mu, temperature_K |-> T,
     integration_method |-> method]

Run(a) ==
    IF a.op = "number_of_electrons_from_dos"
    THEN number_of_electrons_from_dos(a.dos_data, a.emin, a.emax, a.nr_energy_levels,
                                      a.fermi_energy_eV, a.temperature_K,
                                      a.integration_method)
    ELSE band_energy_from_dos(a.dos_data, a.emin, a.emax, a.nr_energy_levels,
                              a.fermi_energy_eV, a.temperature_K, a.integration_method)

(* argument tuples (dos_data, emin, emax, nr_energy_levels, fermi_energy_eV, *)
(* temperature_K, integration_method) of the static operations             *)
StaticArgs ==
    DosData \X Offsets \X EmaxVals \X GridSizes \X FermiVals \X TempVals \X Methods

(* a variant that takes the stored value for every argument that is falsy  *)
(* (None or 0)                                                             *)
get_band_energy_or_stored(dos_data, fermi_arg, temp_arg, integration_method) ==
    LET fermi == IF fermi_arg \in {None, Some(0)} THEN fermi_energy_eV ELSE fermi_arg[1]
        temp == IF temp_arg \in {None, Some(0)} THEN temperature_K ELSE temp_arg[1]
        emin == parameters.ldos_gridoffset_ev
        emax == parameters.ldos_gridsize * parameters.ldos_gridspacing_ev
                  + parameters.ldos_gridoffset_ev
        nr_energy_levels == parameters.ldos_gridsize
    IN  Args("band_energy_from_dos", dos_data, emin, emax, nr_energy_levels, fermi, temp,
             integration_method)

(* the instance wrappers of dos.py: the arguments each passes on to its    *)
(* static operation; self is (parameters, fermi_energy_eV, temperature_K)  *)
get_band_energy(dos_data, fermi_arg, temp_arg, integration_method) ==
    LET fermi == IF fermi_arg = None THEN fermi_energy_eV ELSE fermi_arg[1]
        temp == IF temp_arg = None THEN temperature_K ELSE temp_arg[1]
        emin == parameters.ldos_gridoffset_ev
        emax == parameters.ldos_gridsize * parameters.ldos_gridspacing_ev
                  + parameters.ldos_gridoffset_ev
        nr_energy_levels == parameters.ldos_gridsize
    IN  Args("band_energy_from_dos", dos_data, emin, emax, nr_energy_levels, fermi, temp,
             integration_method)

(* a variant whose grid ends at offset + (size - 1) * spacing *)
get_number_of_electrons_short_grid(dos_data, fermi_arg, temp_arg, integration_method) ==
    LET fermi == IF fermi_arg = None THEN fermi_energy_eV ELSE fermi_arg[1]
        temp == IF temp_arg = None THEN temperature_K ELSE temp_arg[1]
        emin == parameters.ldos_gridoffset_ev
        emax == (parameters.ldos_gridsize - 1) * parameters.ldos_gridspacing_ev
                  + parameters.ldos_gridoffset_ev
        nr_energy_levels == parameters.ldos_gridsize
    IN  Args("number_of_electrons_from_dos", dos_data, emin, emax, nr_energy_levels,
             fermi, temp, integration_method)

get_number_of_electrons(dos_data, fermi_arg, temp_arg, integration_method) ==
    LET fermi == IF fermi_arg = None THEN fermi_energy_eV ELSE fermi_arg[1]
        temp == IF temp_arg = None THEN temperature_K ELSE temp_arg[1]
        emin == parameters.ldos_gridoffset_ev
        emax == parameters.ldos_gridsize * parameters.ldos_gridspacing_ev
                  + parameters.ldos_gridoffset_ev
        nr_energy_levels == parameters.ldos_gridsize
    IN  Args("number_of_electrons_from_dos", dos_data, emin, emax, nr_energy_levels,
             fermi, temp, integration_method)

(* argument tuples (dos_data, fermi_energy_eV, temperature_K,              *)
(* integration_method) of the wrappers                                     *)
Optional(S) == {None} \cup {Some(v) : v \in S}
WrapperArgs == DosData \X Optional(FermiVals) \X Optional(TempVals) \X Methods

ParameterSpace ==
    [ldos_gridoffset_ev : Offsets, ldos_gridspacing_ev : Spacings,
     ldos_gridsize : GridSizes]

(* the static call a finished call amounts to *)
Delegated(c) == IF c.op \in StaticOps THEN c ELSE c.delegated

DefaultParameters ==
    [ldos_gridoffset_ev |-> 0, ldos_gridspacing_ev |-> 1, ldos_gridsize |-> 3]

Instance == <<parameters, fermi_energy_eV, temperature_K>>

(* a call of a static operation with arguments from S, made by a caller    *)
(* that holds no result: no instance is involved.  With remember set, the  *)
(* first such call of a behaviour is kept in ref, with the instance state  *)
(* of that moment.                                                         *)
StaticCall(op, S, remember) ==
    /\ call = NoCall
    /\ \E x \in S :
        LET a == Args(op, x[1], x[2], x[3], x[4], x[5], x[6], x[7])
            r == Run(a)
        IN  /\ call' = a
            /\ outcome' = r.result
            /\ trace' = r.trace
            /\ ref' = IF remember /\ ref = NoCall
                      THEN [op |-> "static", args |-> a, outcome |-> r.result,
                            instance |-> Instance]
                      ELSE ref
            /\ dos_array' = dos_data_after(a)
    /\ UNCHANGED <<parameters, fermi_energy_eV, temperature_K, simpsEvenPolicy>>
    /\ UNCHANGED nonDosVars

(* the caller takes the result (or handles the error) and goes on *)
Return ==
    /\ call # NoCall
    /\ call' = NoCall
    /\ outcome' = NoOutcome
    /\ trace' = <<>>
    /\ dos_array' = NoArray
    /\ UNCHANGED <<parameters, fermi_energy_eV, temperature_K, simpsEvenPolicy, ref>>
    /\ UNCHANGED nonDosVars

(* DOS(p): an instance on the parameters p; the physical parameters are    *)
(* those its calculation supplies                                          *)
Construct(P, F, T) ==
    /\ call = NoCall
    /\ parameters' \in P
    /\ fermi_energy_eV' \in F
    /\ temperature_K' \in T
    /\ UNCHANGED <<simpsEvenPolicy, call, outcome, trace, ref, dos_array>>
    /\ UNCHANGED nonDosVars

(* the static call the wrapper op makes for the argument tuple w *)
Wrapped(op, w) ==
    IF op = "get_number_of_electrons"
    THEN get_number_of_electrons(w[1], w[2], w[3], w[4])
    ELSE get_band_energy(w[1], w[2], w[3], w[4])

(* a call of an instance wrapper with arguments from S *)
WrapperCall(op, S) ==
    /\ call = NoCall
    /\ \E w \in S :
        LET a == Wrapped(op, w)
            r == Run(a)
        IN  /\ call' = [op |-> op, dos_data |-> w[1], fermi_arg |-> w[2],
                         temp_arg |-> w[3], integration_method |-> w[4],
                         delegated |-> a]
            /\ outcome' = r.result
            /\ trace' = r.trace
            /\ dos_array' = dos_data_after(a)
    /\ UNCHANGED <<parameters, fermi_energy_eV, temperature_K, simpsEvenPolicy, ref>>
    /\ UNCHANGED nonDosVars

Idle ==
    /\ simpsEvenPolicy \in Policies
    /\ call = NoCall
    /\ outcome = NoOutcome
    /\ trace = <<>>
    /\ ref = NoCall
    /\ dos_array = NoArray

----------------------------------------------------------------------------
(* PhysicalData.read_from_openpmd_file (src/mala/common/physical_data.py). *)
(* An array is a record [shape, cols]: shape is (x, y, z, features) and    *)
(* cols[c] stands for the whole slab [:, :, :, c-1], which the function    *)
(* only ever assigns as a whole.  A variable or argument that is an array  *)
(* or None holds Some(array) or None.  A mesh is [shape, n, unit_SI]: n    *)
(* record components named "0" .. "n-1", each of the spatial shape.        *)

MaxGranularity == 3   \* largest openpmd_granularity
MaxComponents == 4    \* largest len(mesh)
MaxMask == 2          \* largest _feature_mask()

Granularities == 1..MaxGranularity
Masks == 0..MaxMask
MeshShapes == {<<1, 1, 1>>, <<2, 1, 1>>}

(* unit values in millionths of the MALA unit *)
si_unit_conversion == 1000000
UnitSIs == {1000000, 1000010, 2000000}
RelTolInv == 100000

(* what record component i holds, what a caller's array holds before the   *)
(* call, and what np.zeros holds                                           *)
Component(i) == 10 + i
Stale == -1
Zero == 0

Abs(x) == IF x < 0 THEN -x ELSE x
Min(a, b) == IF a < b THEN a ELSE b

(* np.isclose(a, b): |a - b| <= atol + rtol * |b|, rtol = 1e-05; the       *)
(* absolute tolerance 1e-08 is below one unit of the values, which are     *)
(* integers, so the bound rtol * |b| can be rounded down                   *)
isclose(a, b) == Abs(a - b) <= Abs(b) \div RelTolInv

(* a variant that accepts every unit *)
units_accepted_always(unit_SI) == TRUE

(* np.isclose(mesh[str(0)].unit_SI, self.si_unit_conversion) *)
units_accepted(unit_SI) == isclose(unit_SI, si_unit_conversion)

NewArray(shape, features, fill) ==
    [shape |-> <<shape[1], shape[2], shape[3], features>>,
     cols |-> [c \in 1..features |-> fill]]

(* self._feature_mask(): 0 in PhysicalData, overridden by subclasses *)
feature_mask == reader.feature_mask

(* len(mesh) - self._feature_mask() *)
feature_count(mesh) == mesh.n - feature_mask

(* the test of a caller-supplied array's shape against the mesh *)
wrong_shape(a, mesh) ==
    \/ a.shape[1] # mesh.shape[1]
    \/ a.shape[2] # mesh.shape[2]
    \/ a.shape[3] # mesh.shape[3]
    \/ a.shape[4] # feature_count(mesh)

(* the statements before the chunk loop: "" if the loop is reached, else   *)
(* the exception raised.  np.zeros raises on a negative dimension.         *)
Validate(series, a) ==
    IF series.is_mala_data # 1 THEN "Non-MALA data detected"
    ELSE IF a = None /\ feature_count(series.mesh) < 0 THEN "negative dimensions"
    ELSE IF a # None /\ wrong_shape(a[1], series.mesh) THEN "wrong shape provided"
    ELSE IF ~units_accepted(series.mesh.unit_SI) THEN "non-MALA units"
    ELSE ""

(* a variant whose chunks start one component apart *)
next_base_by_one(b, granularity) == b + 1

(* range(start, stop, self.granularity): the next value of base *)
next_base(b, granularity) == b + granularity

(* the output column of record component i: i - self._feature_mask() *)
column(i) == i - feature_mask

(* the array the chunk loop fills: data if no array was passed *)
Target == IF rcall.array = None THEN data[1] ELSE array[1]

(* array_shape[3] + self._feature_mask() *)
Stop == Target.shape[4] + feature_mask

(* end = min(base + self.granularity, array_shape[3] + self._feature_mask()) *)
ChunkEnd == Min(base + reader.granularity, Stop)

(* a[:, :, :, lo:hi] = values, for 0 <= lo <= hi <= features *)
SliceAssign(cols, lo, hi, values) ==
    [c \in 1..Len(cols) |-> IF lo < c /\ c <= hi THEN values[c - lo] ELSE cols[c]]

NoRead == [op |-> "none"]
NoLoads == <<>>

(* no reading is in progress *)
ReaderAtRest ==
    /\ rcall = NoRead
    /\ rpc = "idle"
    /\ array = None
    /\ data = None
    /\ base = 0
    /\ loads = NoLoads
    /\ stores = <<>>
    /\ failure = ""

(* the reader of the specifications that read nothing *)
NoReader == reader = [granularity |-> 1, feature_mask |-> 0] /\ ReaderAtRest

(* argument tuples: the series (is_mala_data, mesh shape, len(mesh),       *)
(* unit_SI) and the array (None, or spatial shape and feature count)       *)
SeriesSpace == {0, 1} \X MeshShapes \X (1..MaxComponents) \X UnitSIs
ArraySpace == {None} \cup (MeshShapes \X (0..MaxComponents))

(* the call up to the chunk loop: lines 116-167 *)
ReadFromOpenpmdFile ==
    /\ rpc = "idle"
    /\ \E s \in SeriesSpace, a \in ArraySpace :
        LET series == [is_mala_data |-> s[1],
                       mesh |-> [shape |-> s[2], n |-> s[3], unit_SI |-> s[4]]]
            passed == IF a = None THEN None ELSE Some(NewArray(a[1], a[2], Stale))
            raised == Validate(series, passed)
        IN  /\ rcall' = [op |-> "read_from_openpmd_file", series |-> series,
                          array |-> passed]
            /\ array' = passed
            /\ loads' = [i \in 0..(series.mesh.n - 1) |-> 0]
            /\ IF raised # ""
               THEN /\ rpc' = "raised"
                    /\ failure' = raised
                    /\ data' = None
                    /\ base' = 0
                    /\ stores' = <<>>
               ELSE /\ rpc' = "loop"
                    /\ failure' = ""
                    /\ data' = IF passed = None
                               THEN Some(NewArray(series.mesh.shape,
                                                  feature_count(series.mesh), Zero))
                               ELSE None
                    /\ base' = feature_mask
                    /\ stores' = [c \in 1..feature_count(series.mesh) |-> 0]
    /\ UNCHANGED <<reader, dosVars, snapVars>>

(* one iteration of the chunk loop: lines 168-183 *)
LoadChunk ==
    /\ rpc = "loop"
    /\ base < Stop
    /\ LET end == ChunkEnd
           transposed == [k \in 1..(end - base) |-> Component(base + k - 1)]
           lo == column(base)
           hi == column(end)
           filled == [shape |-> Target.shape,
                      cols |-> SliceAssign(Target.cols, lo, hi, transposed)]
       IN  /\ loads' = [i \in DOMAIN loads |->
                           IF base <= i /\ i < end THEN loads[i] + 1 ELSE loads[i]]
           /\ stores' = [c \in 1..Len(stores) |->
                            IF lo < c /\ c <= hi THEN stores[c] + 1 ELSE stores[c]]
           /\ IF rcall.array = None
              THEN data' = Some(filled) /\ array' = array
              ELSE array' = Some(filled) /\ data' = data
           /\ base' = next_base(base, reader.granularity)
    /\ UNCHANGED <<reader, rcall, rpc, failure, dosVars, snapVars>>

(* the range is exhausted: lines 185-189; _process_loaded_array is         *)
(* abstract in PhysicalData and does nothing                                *)
FinishRead ==
    /\ rpc = "loop"
    /\ base >= Stop
    /\ rpc' = "returned"
    /\ UNCHANGED <<reader, rcall, array, data, base, loads, stores, failure, dosVars,
                   snapVars>>

(* the caller takes the result or handles the exception *)
ReaderReturn ==
    /\ rpc \in {"returned", "raised"}
    /\ rcall' = NoRead
    /\ rpc' = "idle"
    /\ array' = None
    /\ data' = None
    /\ base' = 0
    /\ loads' = NoLoads
    /\ stores' = <<>>
    /\ failure' = ""
    /\ UNCHANGED <<reader, dosVars, snapVars>>

----------------------------------------------------------------------------
(* SNAP.__calculate_snap (src/mala/descriptors/snap.py).  The LAMMPS       *)
(* object is external: of a run the model keeps the input file it was      *)
(* given and the compute the results were extracted from.                  *)

MaxCalculations == 3    \* calculations made on one parameters object
MaxTwojmax == 4         \* largest parameters.twojmax

BgridInput == "in.bgrid.python"
BgridLocalInput == "in.bgridlocal.python"
UserInput == "in.user"
GridDimensions == {<<1, 1, 1>>, <<2, 1, 3>>}
NoDescriptors == [compute |-> "none", shape |-> <<>>]
NoFile == "none"

(* a variant that takes the standard input of the current mode whatever    *)
(* the parameter holds                                                     *)
compute_file_of_mode(current, use_mpi) ==
    IF use_mpi THEN BgridLocalInput ELSE BgridInput

(* parameters.lammps_compute_file after lines 203-210: the standard input  *)
(* of the current mode if it was the empty string, else what it was        *)
compute_file(current, use_mpi) ==
    IF current = ""
    THEN IF use_mpi THEN BgridLocalInput ELSE BgridInput
    ELSE current

(* ncoeff // 24 plus the three coordinate columns *)
fingerprint(j) == 3 + ((j + 2) * (j + 3) * (j + 4)) \div 24

(* ndarray.transpose(axes): the shape of the result *)
transpose(shape, axes) == [k \in 1..Len(shape) |-> shape[axes[k] + 1]]

SnapAtRest ==
    /\ lammps_compute_file = ""
    /\ mpi = FALSE
    /\ twojmax = 2
    /\ dbg_grid_dimensions = <<>>
    /\ fingerprint_length = 0
    /\ lmp_file = NoFile
    /\ snap_descriptors = NoDescriptors
    /\ calculations = 0

(* one calculation on a grid of grid_dimensions; in the parallel case the  *)
(* local row and column counts are what LAMMPS reports                     *)
CalculateSnap ==
    /\ calculations < MaxCalculations
    /\ \E grid_dimensions \in GridDimensions, consistent \in BOOLEAN :
        LET dims == IF Len(dbg_grid_dimensions) = 3 THEN dbg_grid_dimensions
                    ELSE grid_dimensions
            nx == dims[1]
            ny == dims[2]
            nz == dims[3]
            file == compute_file(lammps_compute_file, mpi)
            length == fingerprint(twojmax)
            nrows_local == nx * ny * nz
            ncols_local == IF consistent THEN length + 3 ELSE length
        IN  /\ lammps_compute_file' = file
            /\ lmp_file' = file
            /\ fingerprint_length' = length
            /\ snap_descriptors' =
                  IF mpi
                  THEN IF ncols_local # length + 3
                       THEN [compute |-> "bgridlocal", shape |-> <<>>,
                             raised |-> "Inconsistent number of features."]
                       ELSE [compute |-> "bgridlocal",
                             shape |-> <<nrows_local, ncols_local>>]
                  ELSE [compute |-> "bgrid",
                        shape |-> transpose(<<nz, ny, nx, length>>, <<2, 1, 0, 3>>)]
    /\ calculations' = calculations + 1
    /\ UNCHANGED <<mpi, twojmax, dbg_grid_dimensions, dosVars, readerVars>>

(* the user switches between serial and parallel execution *)
ToggleMpi ==
    /\ mpi' = ~mpi
    /\ UNCHANGED <<lammps_compute_file, twojmax, dbg_grid_dimensions, fingerprint_length,
                   lmp_file, snap_descriptors, calculations, dosVars, readerVars>>

(* Spec: the static operations on all arguments *)
Init ==
    /\ parameters = DefaultParameters
    /\ fermi_energy_eV = 0
    /\ temperature_K = 1
    /\ Idle
    /\ NoReader
    /\ SnapAtRest

NumberOfElectronsFromDos ==
    StaticCall("number_of_electrons_from_dos", StaticArgs, FALSE)
BandEnergyFromDos ==
    StaticCall("band_energy_from_dos", StaticArgs, FALSE)

Next ==
    \/ NumberOfElectronsFromDos
    \/ BandEnergyFromDos
    \/ Return

Spec == Init /\ [][Next]_vars

(* SpecInstance: the wrappers on instances of all parameters *)
InitInstance ==
    /\ parameters \in ParameterSpace
    /\ fermi_energy_eV \in FermiVals
    /\ temperature_K \in TempVals
    /\ Idle
    /\ NoReader
    /\ SnapAtRest

NewInstance == Construct(ParameterSpace, FermiVals, TempVals)
GetNumberOfElectrons ==
    WrapperCall("get_number_of_electrons", WrapperArgs)
GetBandEnergy ==
    WrapperCall("get_band_energy", WrapperArgs)

NextInstance ==
    \/ NewInstance
    \/ GetNumberOfElectrons
    \/ GetBandEnergy
    \/ Return

SpecInstance == InitInstance /\ [][NextInstance]_vars

(* SpecPure: static calls interleaved with new instances and wrapper       *)
(* calls, on full-length 1-D data and grids of the largest size; the first *)
(* static call is remembered.                                              *)
PureData == {d \in DosData : d.ndim = 1 /\ TrailingLen(d) = MaxLen}
PureArgs == PureData \X {0} \X {3} \X {MaxN} \X FermiVals \X TempVals \X Methods
PureWrapperArgs == PureData \X {None} \X {None} \X Methods
PureParameterSpace ==
    [ldos_gridoffset_ev : {0}, ldos_gridspacing_ev : {1},
     ldos_gridsize : {MaxN - 1, MaxN}]

InitPure ==
    /\ parameters \in PureParameterSpace
    /\ fermi_energy_eV = 0
    /\ temperature_K \in TempVals
    /\ Idle
    /\ NoReader
    /\ SnapAtRest

PureNewInstance == Construct(PureParameterSpace, {0}, TempVals)
PureNumberOfElectronsFromDos ==
    StaticCall("number_of_electrons_from_dos", PureArgs, TRUE)
PureBandEnergyFromDos ==
    StaticCall("band_energy_from_dos", PureArgs, TRUE)
PureGetNumberOfElectrons ==
    WrapperCall("get_number_of_electrons", PureWrapperArgs)
PureGetBandEnergy ==
    WrapperCall("get_band_energy", PureWrapperArgs)

NextPure ==
    \/ PureNewInstance
    \/ PureNumberOfElectronsFromDos
    \/ PureBandEnergyFromDos
    \/ PureGetNumberOfElectrons
    \/ PureGetBandEnergy
    \/ Return

SpecPure == InitPure /\ [][NextPure]_vars

(* SpecReader: read_from_openpmd_file on readers of every granularity and  *)
(* feature mask                                                            *)
InitReader ==
    /\ parameters = DefaultParameters
    /\ fermi_energy_eV = 0
    /\ temperature_K = 1
    /\ Idle
    /\ simpsEvenPolicy = "hybrid"
    /\ reader \in [granularity : Granularities, feature_mask : Masks]
    /\ ReaderAtRest
    /\ SnapAtRest

NextReader ==
    \/ ReadFromOpenpmdFile
    \/ LoadChunk
    \/ FinishRead
    \/ ReaderReturn

SpecReader == InitReader /\ [][NextReader]_vars

(* SpecSnap: sequences of SNAP calculations on one parameters object, with *)
(* the mpi flag switched in between; lammps_compute_file starts empty or   *)
(* user-supplied.                                                          *)
InitSnap ==
    /\ parameters = DefaultParameters
    /\ fermi_energy_eV = 0
    /\ temperature_K = 1
    /\ Idle
    /\ simpsEvenPolicy = "hybrid"
    /\ NoReader
    /\ lammps_compute_file \in {"", UserInput}
    /\ mpi \in BOOLEAN
    /\ twojmax \in {2, MaxTwojmax}
    /\ dbg_grid_dimensions \in {<<>>, <<1, 2, 1>>}
    /\ fingerprint_length = 0
    /\ lmp_file = NoFile
    /\ snap_descriptors = NoDescriptors
    /\ calculations = 0

NextSnap ==
    \/ CalculateSnap
    \/ ToggleMpi

SpecSnap == InitSnap /\ [][NextSnap]_vars

----------------------------------------------------------------------------
(* Properties.  Finished: a call has returned or raised; Made is the       *)
(* static call it amounts to.                                              *)

Finished == call # NoCall
Made == Delegated(call)
Invoked(fn) == \E i \in 1..Len(trace) : trace[i].fn = fn
Invocations(fn) == SelectSeq(trace, LAMBDA e : e.fn = fn)
GridOf(a) == linspace(a.emin, a.emax, a.nr_energy_levels)
A(a, I0, I1) ==
    analytical_integration(a.dos_data, I0, I1, a.fermi_energy_eV, GridOf(a),
                           a.temperature_K)
IsAnalytical(a) == a.integration_method = "analytical"
Aligned(a) == TrailingLen(a.dos_data) = a.nr_energy_levels

(* C1: with method = analytical, band_energy_from_dos returns exactly      *)
(* A(F1,F2) + mu * A(F0,F1), A being the analytical integrator on the same *)
(* data, Fermi energy, grid and temperature, and the numerical integrator  *)
(* is not invoked.                                                         *)
C1_AnalyticalBandEnergy ==
    (Finished /\ Made.op = "band_energy_from_dos" /\ IsAnalytical(Made)) =>
        LET A01 == A(Made, "F0", "F1")
            A12 == A(Made, "F1", "F2")
        IN  /\ ~Invoked("integrate_values_on_grid")
            /\ \A i \in 1..Len(Invocations("analytical_integration")) :
                  LET e == Invocations("analytical_integration")[i]
                  IN  /\ e.rows = Made.dos_data.rows
                      /\ e.grid = GridOf(Made)
                      /\ e.mu = Made.fermi_energy_eV
                      /\ e.temp = Made.temperature_K
            /\ IsValue(outcome) <=> (IsValue(A01) /\ IsValue(A12))
            /\ IsValue(outcome) =>
                  /\ outcome.ndim = Made.dos_data.ndim - 1
                  /\ outcome.vals =
                        [b \in 1..Len(Made.dos_data.rows) |->
                            A12.vals[b] + Made.fermi_energy_eV * A01.vals[b]]

C1_Witness ==
    /\ Finished /\ Made.op = "band_energy_from_dos" /\ IsAnalytical(Made)
    /\ IsValue(outcome)
    /\ Made.fermi_energy_eV = 1
    /\ Made.dos_data.ndim = 2
    /\ A(Made, "F0", "F1").vals[1] # 0

(* C2: with any method other than analytical, number_of_electrons          *)
(* integrates D[i]*f[i] and band energy integrates D[i]*E[i]*f[i] over the *)
(* grid E with the numerical integrator; the result has the last axis      *)
(* removed, one value per leading batch index.                             *)
ExpectedIntegrand(a) ==
    LET E == GridOf(a).pts
        f == fermi_function(GridOf(a), a.fermi_energy_eV, a.temperature_K)
        D == a.dos_data.rows
    IN  [ndim |-> a.dos_data.ndim,
         rows |-> [b \in 1..Len(D) |->
                     [i \in 1..a.nr_energy_levels |->
                         IF a.op = "number_of_electrons_from_dos"
                         THEN D[b][i] * f[i]
                         ELSE D[b][i] * E[i] * f[i]]]]

C2_NumericIntegrand ==
    (Finished /\ ~IsAnalytical(Made) /\ Aligned(Made)) =>
        /\ Len(Invocations("integrate_values_on_grid")) = 1
        /\ Invocations("integrate_values_on_grid")[1].rows = ExpectedIntegrand(Made).rows
        /\ Invocations("integrate_values_on_grid")[1].grid = GridOf(Made)
        /\ outcome = integrate_values_on_grid(ExpectedIntegrand(Made), GridOf(Made),
                                               Made.integration_method)
        /\ IsValue(outcome) =>
              /\ outcome.ndim = Made.dos_data.ndim - 1
              /\ Len(outcome.vals) = Len(Made.dos_data.rows)

C2_Witness ==
    /\ Finished /\ Made.op = "band_energy_from_dos"
    /\ Made.integration_method = "trapz" /\ Aligned(Made)
    /\ Made.dos_data.ndim = 2 /\ Made.nr_energy_levels = 3
    /\ IsValue(outcome) /\ outcome.vals[1] # 0

(* C3: in every call with method = analytical the occupation function      *)
(* evaluator is never invoked (stated for calls with no defect: the data   *)
(* has the grid's length, N >= 2 and T > 0).                               *)
C3_NoOccupationWhenAnalytical ==
    (/\ Finished /\ IsAnalytical(Made)
     /\ Aligned(Made) /\ Made.nr_energy_levels >= 2 /\ Made.temperature_K > 0) =>
        ~Invoked("fermi_function")

(* C4: for T = 0 and method = analytical both operations fail with         *)
(* DegenerateTemperatureError, raised by the first analytical integration; *)
(* no value is returned and no other error is the outcome.                 *)
C4_DegenerateTemperature ==
    (Finished /\ IsAnalytical(Made) /\ Made.temperature_K = 0) =>
        /\ outcome.kind = "DegenerateTemperatureError"
        /\ trace[Len(trace)].fn = "analytical_integration"
        /\ trace[Len(trace)].tag = "F0F1"

C4_Witness ==
    /\ Finished /\ IsAnalytical(Made) /\ Made.temperature_K = 0
    /\ Made.op = "band_energy_from_dos" /\ Aligned(Made)
    /\ outcome.kind = "DegenerateTemperatureError"

(* C5: every call in which the trailing axis length of the spectral data   *)
(* differs from the grid length N fails with ShapeMismatchError and        *)
(* returns no result, whatever the method (the call has no other defect:   *)
(* the method is one of the enumerated choices, N >= 2 and T > 0).         *)
C5_ShapeMismatch ==
    (/\ Finished /\ ~Aligned(Made)
     /\ Made.integration_method \in {"trapz", "simps", "analytical"}
     /\ Made.nr_energy_levels >= 2 /\ Made.temperature_K > 0) =>
        outcome.kind = "ShapeMismatchError"

(* C6: grid construction fails with InvalidGridError whenever              *)
(* grid_size < 2 or grid_spacing <= 0: no call of a wrapper returns a      *)
(* result computed on such a grid (the call has no other defect: the data  *)
(* has the grid's length, the method is an enumerated choice and T > 0).   *)
C6_InvalidGrid ==
    (/\ Finished
     /\ parameters.ldos_gridsize < 2 \/ parameters.ldos_gridspacing_ev <= 0
     /\ Aligned(Made) /\ Made.temperature_K > 0
     /\ Made.integration_method \in {"trapz", "simps", "analytical"}) =>
        outcome.kind = "InvalidGridError"

(* C7: for valid (grid_offset, grid_spacing > 0, grid_size N >= 2) the     *)
(* energy grid the dispatcher uses has exactly N points, is strictly       *)
(* increasing and equally spaced, starts at grid_offset and ends at        *)
(* grid_offset + N * grid_spacing.                                         *)
C7_Grid ==
    (/\ Finished
     /\ parameters.ldos_gridsize >= 2 /\ parameters.ldos_gridspacing_ev > 0) =>
        LET N == parameters.ldos_gridsize
            g == trace[1].grid
        IN  /\ trace[1].fn = "linspace"
            /\ \A i \in 1..Len(trace) : trace[i].grid = g
            /\ Len(g.pts) = N
            /\ \A i \in 1..(N - 1) : g.pts[i] < g.pts[i + 1]
            /\ \A i \in 1..(N - 2) : g.pts[i + 1] - g.pts[i] = g.pts[i + 2] - g.pts[i + 1]
            /\ g.pts[1] = parameters.ldos_gridoffset_ev * g.den
            /\ g.pts[N] = (parameters.ldos_gridoffset_ev
                             + N * parameters.ldos_gridspacing_ev) * g.den

C7_Witness ==
    /\ Finished /\ call.op = "get_number_of_electrons"
    /\ parameters.ldos_gridsize = 3 /\ parameters.ldos_gridspacing_ev = 2
    /\ parameters.ldos_gridoffset_ev = -1
    /\ IsValue(outcome) /\ Len(trace) = 3

(* C8: for method = Simpson on a grid with an even number of points every  *)
(* call that reaches the integrator has the same kind of outcome, fixed by *)
(* the integrator's documented choice: always the hybrid result or always  *)
(* IncompatibleGridError, whatever the data and whichever operation.       *)
C8_SimpsonEvenConsistent ==
    (/\ Finished /\ Made.integration_method = "simps"
     /\ IsEven(Made.nr_energy_levels)
     /\ CanBroadcast(TrailingLen(Made.dos_data), Made.nr_energy_levels)) =>
        IF simpsEvenPolicy = "hybrid"
        THEN IsValue(outcome) /\ outcome.rule = "hybrid"
        ELSE outcome.kind = "IncompatibleGridError"

C8_Witness ==
    /\ Finished /\ Made.integration_method = "simps"
    /\ Made.op = "band_energy_from_dos"
    /\ Made.nr_energy_levels = 4 /\ Aligned(Made)
    /\ simpsEvenPolicy = "hybrid" /\ IsValue(outcome) /\ outcome.vals[1] # 0

(* C9: no silent substitution of methods: analytical runs the analytical   *)
(* integrator only; any other method value runs the numerical integrator   *)
(* only, with the caller's value passed through unchanged, and a value     *)
(* that is not an enumerated choice never yields a result.                 *)
RulesOf(method) ==
    CASE method = "trapz" -> {"trapezoid"}
      [] method = "simps" -> {"simpson", "hybrid"}
      [] method = "analytical" -> {"analytical"}
      [] OTHER -> {}

C10_Pure ==
    [][(call = NoCall /\ call'.op \in StaticOps) =>
          /\ Instance' = Instance
          /\ simpsEvenPolicy' = simpsEvenPolicy
          /\ ref # NoCall => ref' = ref
          /\ (ref' # NoCall /\ ref'.args = call') => outcome' = ref'.outcome]_vars

C10_Witness ==
    /\ Finished /\ call.op \in StaticOps
    /\ ref # NoCall /\ ref.args = call
    /\ ref.instance # Instance
    /\ ref.instance[1].ldos_gridsize # parameters.ldos_gridsize
    /\ IsValue(outcome)

(* C11: the spectral data are an input view: when a call of either static  *)
(* operation is over, by the regular or the analytical branch, with a      *)
(* value or with an error, the caller's array holds exactly the values     *)
(* that were passed in.                                                    *)
C11_InputUnchanged ==
    (Finished /\ call.op \in StaticOps) => dos_array = call.dos_data

(* a band energy by a numerical rule whose integrand differs from the data *)
C11_Witness ==
    /\ Finished /\ call.op = "band_energy_from_dos"
    /\ call.integration_method = "simps"
    /\ IsValue(outcome)
    /\ Invocations("integrate_values_on_grid")[1].rows # call.dos_data.rows
    /\ dos_array = call.dos_data

(* C14: the chunk loop of read_from_openpmd_file.  With g the granularity, *)
(* m the feature mask and F = len(mesh) - m: the loop variable runs        *)
(* through m, m + g, ... and stops within g of m + F; every record         *)
(* component below it in m .. m + F - 1 has been loaded exactly once and   *)
(* no other component at all; component i has been stored, once, into      *)
(* output column i - m; and on return every column 0 .. F - 1 has been      *)
(* written exactly once, whether or not g divides F or exceeds it.         *)
C14_ChunkLoop ==
    rpc \in {"loop", "returned"} =>
        LET m == reader.feature_mask
            g == reader.granularity
            F == rcall.series.mesh.n - m
            done == Min(base, m + F)
        IN  /\ F >= 0 /\ Len(Target.cols) = F /\ Len(stores) = F
            /\ base >= m /\ (base - m) % g = 0 /\ base < m + F + g
            /\ \A i \in DOMAIN loads :
                  loads[i] = IF m <= i /\ i < done THEN 1 ELSE 0
            /\ \A c \in 0..(F - 1) :
                  /\ stores[c + 1] = IF c + m < done THEN 1 ELSE 0
                  /\ stores[c + 1] = 1 => Target.cols[c + 1] = Component(c + m)
            /\ rpc = "returned" =>
                  /\ \A i \in m..(m + F - 1) : loads[i] = 1
                  /\ \A c \in 1..F : stores[c] = 1

(* a return after two chunks, the second shorter than the granularity,     *)
(* with a feature mask, into a caller's array                              *)
C14_Witness ==
    /\ rpc = "returned"
    /\ reader.granularity = 2 /\ reader.feature_mask = 1
    /\ rcall.series.mesh.n = 4
    /\ rcall.array # None
    /\ array[1].cols = <<Component(1), Component(2), Component(3)>>
    /\ loads = [i \in 0..3 |-> IF i = 0 THEN 0 ELSE 1]

(* C15: read_from_openpmd_file validates before it loads: when the series  *)
(* is not MALA data, or the shape of a caller-supplied array is not the    *)
(* mesh's spatial shape with len(mesh) - feature mask features, or the     *)
(* mesh's unit_SI is not close to si_unit_conversion, the call raises with *)
(* no record component loaded and the caller's array as it was passed.     *)
C15_ValidateBeforeLoad ==
    LET mesh == rcall.series.mesh
        expected == <<mesh.shape[1], mesh.shape[2], mesh.shape[3],
                      mesh.n - reader.feature_mask>>
        invalid == \/ rcall.series.is_mala_data # 1
                   \/ rcall.array # None /\ rcall.array[1].shape # expected
                   \/ ~isclose(mesh.unit_SI, si_unit_conversion)
    IN  (rpc # "idle" /\ invalid) =>
            /\ rpc = "raised" /\ failure # ""
            /\ \A i \in DOMAIN loads : loads[i] = 0
            /\ array = rcall.array
            /\ data = None

(* a foreign unit, with MALA data and an array of the right shape that has *)
(* columns to fill                                                         *)
C15_Witness ==
    /\ rpc = "raised" /\ failure = "non-MALA units"
    /\ rcall.series.is_mala_data = 1
    /\ rcall.array # None
    /\ Len(array[1].cols) = rcall.series.mesh.n - reader.feature_mask
    /\ Len(array[1].cols) >= 2
    /\ \A c \in 1..Len(array[1].cols) : array[1].cols[c] = Stale

(* C16: a call of get_number_of_electrons or get_band_energy returns       *)
(* exactly what number_of_electrons_from_dos, respectively                 *)
(* band_energy_from_dos, returns for emin = ldos_gridoffset_ev,             *)
(* emax = ldos_gridsize * ldos_gridspacing_ev + ldos_gridoffset_ev,         *)
(* N = ldos_gridsize and the same method; a Fermi energy or temperature    *)
(* that is passed, 0 included, is used as given and the stored value only  *)
(* for an argument that is None; and the call leaves the instance's        *)
(* stored Fermi energy, temperature and parameters as they were.           *)
C16_Wrappers ==
    [][(call = NoCall /\ call'.op \in {"get_number_of_electrons", "get_band_energy"}) =>
          LET c == call'
              p == parameters
              op == IF c.op = "get_number_of_electrons"
                    THEN "number_of_electrons_from_dos"
                    ELSE "band_energy_from_dos"
              mu == IF c.fermi_arg = None THEN fermi_energy_eV ELSE c.fermi_arg[1]
              T == IF c.temp_arg = None THEN temperature_K ELSE c.temp_arg[1]
              static == Args(op, c.dos_data, p.ldos_gridoffset_ev,
                             p.ldos_gridsize * p.ldos_gridspacing_ev + p.ldos_gridoffset_ev,
                             p.ldos_gridsize, mu, T, c.integration_method)
          IN  /\ outcome' = Run(static).result
              /\ c.delegated = static
              /\ Instance' = Instance]_vars

(* a band energy with the Fermi energy 0 passed to an instance that stores *)
(* 1, and the temperature left to the instance                             *)
C16_Witness ==
    /\ Finished /\ call.op = "get_band_energy"
    /\ call.fermi_arg = Some(0) /\ fermi_energy_eV = 1
    /\ call.temp_arg = None /\ temperature_K = 1
    /\ Made.fermi_energy_eV = 0 /\ Made.temperature_K = 1
    /\ Aligned(Made) /\ IsValue(outcome)
    /\ outcome # Run([Made EXCEPT !.fermi_energy_eV = 1]).result

(* C17: across calculations on one parameters object lammps_compute_file   *)
(* is assigned only while it is the empty string, to the bgridlocal input  *)
(* if the mpi flag is set and else to the bgrid input; once non-empty,     *)
(* user-supplied or set by an earlier calculation, no step changes it; and *)
(* every calculation runs the file the parameter then names and extracts   *)
(* from the compute of the current mpi flag.                               *)
C17_ComputeFileSticky ==
    [][/\ lammps_compute_file # "" => lammps_compute_file' = lammps_compute_file
       /\ lammps_compute_file' # lammps_compute_file =>
             /\ calculations' = calculations + 1
             /\ lammps_compute_file' = IF mpi THEN BgridLocalInput ELSE BgridInput
       /\ calculations' # calculations =>
             /\ lammps_compute_file' # ""
             /\ lmp_file' = lammps_compute_file'
             /\ snap_descriptors'.compute = IF mpi THEN "bgridlocal" ELSE "bgrid"]_vars

(* a parallel extraction from a run of the serial input, which an earlier  *)
(* serial calculation chose                                                *)
C17_Witness ==
    /\ calculations >= 2
    /\ mpi /\ lammps_compute_file = BgridInput
    /\ lmp_file = BgridInput
    /\ snap_descriptors.compute = "bgridlocal"
    /\ "raised" \notin DOMAIN snap_descriptors

====
